---- MODULE Spec2Model ----
(***************************************************************************)
(* Model of the minimal unit test framework of unit.c (libforth): the      *)
(* tally, the reporter, the SIGABRT trap built from signal/setjmp/longjmp, *)
(* the test/must/state macros and main's driver.                           *)
(*                                                                         *)
(* The whole process state is one record.  `run` is the process under      *)
(* study; `twin` is the same program fed the same inputs with one more     *)
(* leading "-s" on its command line (self-composition, used to compare a   *)
(* silent run with a non-silent one).  Every operation of the program is   *)
(* an operator from a process state to a process state, and every action   *)
(* applies the same operator to both processes.                            *)
(***************************************************************************)
EXTENDS Integers, Sequences, FiniteSets, TLC

VARIABLES run, twin

vars == <<run, twin>>

(* ------------------------------ bounds --------------------------------- *)

\* arguments on the command line after the program name, where the
\* command line is under study (SpecArgs)
MaxArgs == 2

\* arguments on the command line after the program name, elsewhere (Spec)
MaxSuiteArgs == 1

\* main's body is followed up to this many of its calls, then unit_test_end
SuiteLen == 7

\* signals delivered to the process in one run
MaxSignals == 2

\* signal numbers tried by SpecSig reach this far below 0 and this far
\* above MAX_SIGNALS
SigMargin == 3

(* ---------------------------- constants -------------------------------- *)

SIGINT == 2

SIGILL == 4

SIGABRT == 6

SIGFPE == 8

SIGSEGV == 11

SIGTERM == 15

MAX_SIGNALS == 256

\* the calls of main's body in program order, each with its source line;
\* "state_unless_keep" is the state(...) under if(!keep_files)
MainBody ==
  <<
    <<"note", 223>>, <<"state", 224>>, <<"must", 225>>, <<"state", 226>>,
    <<"must", 227>>, <<"test", 230>>, <<"test", 231>>, <<"state", 232>>,
    <<"state", 233>>, <<"test", 234>>, <<"test", 235>>, <<"test", 237>>,
    <<"test", 238>>, <<"test", 239>>, <<"test", 240>>, <<"test", 241>>,
    <<"test", 242>>, <<"test", 245>>, <<"test", 246>>, <<"test", 247>>,
    <<"test", 248>>, <<"state", 251>>, <<"test", 252>>, <<"test", 253>>,
    <<"state", 254>>, <<"test", 257>>, <<"state", 258>>, <<"state", 261>>,
    <<"state", 262>>, <<"test", 263>>, <<"test", 264>>, <<"test", 265>>,
    <<"test", 266>>, <<"state", 267>>, <<"state", 274>>, <<"must", 275>>,
    <<"state", 278>>, <<"test", 281>>, <<"must", 282>>, <<"test", 284>>,
    <<"test", 285>>, <<"test", 286>>, <<"test", 287>>, <<"state", 289>>,
    <<"state", 290>>, <<"state_unless_keep", 292>>, <<"state", 303>>,
    <<"must", 304>>, <<"test", 308>>, <<"test", 309>>, <<"test", 310>>,
    <<"state", 311>>, <<"test", 312>>, <<"test", 313>>, <<"test", 316>>,
    <<"test", 317>>, <<"test", 318>>, <<"test", 319>>, <<"test", 320>>,
    <<"test", 323>>, <<"test", 324>>, <<"test", 325>>, <<"test", 326>>,
    <<"test", 329>>, <<"test", 330>>, <<"test", 331>>, <<"test", 332>>,
    <<"test", 335>>, <<"test", 336>>, <<"test", 337>>, <<"test", 340>>,
    <<"test", 341>>, <<"test", 344>>, <<"test", 345>>, <<"test", 346>>,
    <<"test", 347>>, <<"state", 350>>, <<"state", 355>>, <<"must", 356>>,
    <<"test", 365>>, <<"test", 366>>, <<"test", 369>>, <<"test", 370>>,
    <<"test", 373>>, <<"test", 374>>, <<"state", 376>>
  >>

Suite == SubSeq(MainBody, 1, SuiteLen)

Kind(k) == Suite[k][1]

Line(k) == Suite[k][2]

IsAssertion(k) == Kind(k) \in {"test", "must"}

\* the command-line arguments the model draws from, as character sequences
Args ==
  { <<"-", "s">>, <<"-", "c">>, <<"-", "k">>, <<"-", "h">>, <<"-", "x">>,
    <<"-">>, <<"f">> }

ArgVectors(max) ==
  UNION { [1..n -> Args] : n \in 0..max }

\* argv[i][n] of the C program; argv[0] is the program name
Char(argv, i, n) ==
  IF n < Len(argv[i + 1]) THEN argv[i + 1][n + 1] ELSE "NUL"

(* ------------------------- process start ------------------------------- *)

\* A process state.  Globals of unit.c under their own names.  Further:
\*   pc, ip       point of control: the statement about to run, inside call
\*                ip of main's body
\*   status       "running", "exited" (exit or return from main, with
\*                exit_code) or "killed" (by signal termsig)
\*   argv, i      main's arguments and loop index
\*   disposition  what signal() last set for SIGABRT
\*   resethand    this build's signal() resets the disposition to SIG_DFL
\*                when the handler is entered (System V) or keeps it (BSD)
\*   test_arg     parameter and result of the unit_tester call in progress
\*   start_ret, end_ret  results of unit_test_start and unit_test_end
\*   current_test the call whose setjmp filled the jmp_buf (0: none)
\* and, recorded for the properties only:
\*   started      calls of unit_test_start so far
\*   nsig         signals delivered so far
\*   entry_passed, entry_failed  the counters when control entered call ip
\*   hit          pc at which a signal was caught in call ip ("none": none)
\*   must_failed  a must has recorded a failure, its expression having been
\*                false or interrupted by a caught signal
\* The globals at program start, the command line being <<"u">> \o args:
Start(args, resethand) ==
  [ pc |-> "args", ip |-> 0, status |-> "running", exit_code |-> 0,
    termsig |-> 0,
    argv |-> <<<<"u">>>> \o args, i |-> 1,
    color_on |-> 0, jmpbuf_active |-> 0, is_silent |-> 0, keep_files |-> 0,
    passed |-> 0, failed |-> 0,
    current_test |-> 0, current_line |-> 0, current_result |-> 0,
    caught_signal |-> 0,
    disposition |-> "SIG_DFL", resethand |-> resethand,
    test_arg |-> 0, start_ret |-> 0, end_ret |-> 0,
    out |-> <<>>, err |-> <<>>,
    started |-> 0, nsig |-> 0, entry_passed |-> 0, entry_failed |-> 0,
    hit |-> "none", must_failed |-> FALSE ]

(* ------------------------------ reporter ------------------------------- *)

\* out and err hold what the process has written to stdout and stderr since
\* control entered the current call of main's body (since program start,
\* before the first call); a line is its prefix and the source line of the
\* expression or statement it prints

Emit(s, line) == IF s.is_silent = 0 THEN Append(s.out, line) ELSE s.out

print_statement(s) == [s EXCEPT !.out = Emit(s, <<"state", Line(s.ip)>>)]

print_must(s) == [s EXCEPT !.out = Emit(s, <<"must", Line(s.ip)>>)]

print_note(s) == [s EXCEPT !.out = Emit(s, <<"note", Line(s.ip)>>)]

sig_lookup(n) ==
  CASE n = SIGABRT -> "SIGABRT"
    [] n = SIGFPE -> "SIGFPE"
    [] n = SIGILL -> "SIGILL"
    [] n = SIGINT -> "SIGINT"
    [] n = SIGSEGV -> "SIGSEGV"
    [] n = SIGTERM -> "SIGTERM"
    [] OTHER -> "NULL"

\* the elements of the array: the largest designator is MAX_SIGNALS
sig_lookup_indices == 0..MAX_SIGNALS

\* faulty variant: the test caught_signal > 0 is missing
sig_in_range_unsigned(n) == n < MAX_SIGNALS

\* the two range tests that guard the subscript, left to right under &&
sig_in_range(n) == n > 0 /\ n < MAX_SIGNALS

\* the subscripts with which print_caught_signal_name reads sig_lookup
sig_reads(n) == IF sig_in_range(n) THEN {n} ELSE {}

sig_name(n) ==
  IF sig_in_range(n) /\ sig_lookup(n) # "NULL"
  THEN sig_lookup(n)
  ELSE "UNKNOWN SIGNAL"

print_caught_signal_name(s) ==
  [s EXCEPT !.out = Emit(s, <<"caught", sig_name(s.caught_signal),
                               s.caught_signal>>)]

(* ------------------------------- tally --------------------------------- *)

\* faulty variant: the counter is stepped inside the if(!is_silent) block
unit_tester_count_quiet(s) ==
  IF s.is_silent # 0 THEN s
  ELSE IF s.test_arg # 0
       THEN [s EXCEPT !.passed = @ + 1]
       ELSE [s EXCEPT !.failed = @ + 1]

\* unit_tester, first half: the counter
unit_tester_count(s) ==
  IF s.test_arg # 0
  THEN [s EXCEPT !.passed = @ + 1]
  ELSE [s EXCEPT !.failed = @ + 1]

\* unit_tester, second half: the result line
unit_tester_print(s) ==
  IF s.test_arg # 0
  THEN [s EXCEPT !.out = Emit(s, <<"ok", Line(s.ip)>>)]
  ELSE [s EXCEPT !.out = Emit(s, <<"FAILED", s.current_line>>)]

(* ------------------------- control of main ----------------------------- *)

FirstLabel(kind) ==
  CASE kind = "note" -> "note"
    [] kind = "must" -> "must_print"
    [] kind = "test" -> "t_line"
    [] OTHER -> "state_print"

\* index of the next call main executes after call k
RECURSIVE NextIp(_, _)
NextIp(s, k) ==
  IF k + 1 > Len(Suite) THEN k + 1
  ELSE IF Kind(k + 1) = "state_unless_keep" /\ s.keep_files # 0
       THEN NextIp(s, k + 1)
       ELSE k + 1

\* control moves on to the call after s.ip, or to unit_test_end
Advance(s) ==
  LET k == NextIp(s, s.ip) IN
  [s EXCEPT !.ip = k,
            !.pc = IF k > Len(Suite) THEN "end" ELSE FirstLabel(Kind(k)),
            !.test_arg = 0, !.start_ret = 0,
            !.out = <<>>, !.err = <<>>,
            !.entry_passed = s.passed, !.entry_failed = s.failed,
            !.hit = "none"]

Exit(s, code) == [s EXCEPT !.status = "exited", !.exit_code = code]

\* faulty variant: case 'h' lacks its return and is skipped like a flag
main_args_h_ignored(s) ==
  IF ~(s.i < Len(s.argv) /\ Char(s.argv, s.i, 0) = "-")
  THEN [s EXCEPT !.pc = "start"]
  ELSE LET c == Char(s.argv, s.i, 1) IN
       CASE c = "NUL" -> [s EXCEPT !.pc = "start"]
         [] c = "s" -> [s EXCEPT !.is_silent = 1, !.i = @ + 1]
         [] c = "h" -> [s EXCEPT !.err = Append(@, "usage"), !.i = @ + 1]
         [] c = "c" -> [s EXCEPT !.color_on = 1, !.i = @ + 1]
         [] c = "k" -> [s EXCEPT !.keep_files = 1, !.i = @ + 1]
         [] OTHER -> Exit([s EXCEPT !.err = @ \o <<"invalid argument",
                                                   "usage">>], -1)

\* one evaluation of the loop condition and body of main's argument loop
main_args(s) ==
  IF ~(s.i < Len(s.argv) /\ Char(s.argv, s.i, 0) = "-")
  THEN [s EXCEPT !.pc = "start"]
  ELSE LET c == Char(s.argv, s.i, 1) IN
       CASE c = "NUL" -> [s EXCEPT !.pc = "start"]
         [] c = "s" -> [s EXCEPT !.is_silent = 1, !.i = @ + 1]
         [] c = "h" -> Exit([s EXCEPT !.err = Append(@, "usage")], -1)
         [] c = "c" -> [s EXCEPT !.color_on = 1, !.i = @ + 1]
         [] c = "k" -> [s EXCEPT !.keep_files = 1, !.i = @ + 1]
         [] OTHER -> Exit([s EXCEPT !.err = @ \o <<"invalid argument",
                                                   "usage">>], -1)

\* unit_test_start; sig_err: its signal() call returned SIG_ERR
unit_test_start(s, sig_err) ==
  IF sig_err
  THEN [s EXCEPT !.err = Append(@, "signal handler installation failed"),
                 !.start_ret = -1]
  ELSE [s EXCEPT !.disposition = "sig_abrt_handler",
                 !.out = Emit(s, <<"begin", 0>>),
                 !.start_ret = 0]

\* main line 208: the call, its result discarded, control enters the body;
\* start_ret keeps the discarded result until the first call has run
main_start(s, sig_err) ==
  unit_test_start(Advance([s EXCEPT !.started = @ + 1]), sig_err)

unit_test_end(s) ==
  [s EXCEPT !.out = Emit(s, <<"summary", s.passed, s.passed + s.failed>>),
            !.end_ret = s.failed,
            !.pc = "return"]

\* faulty variant: the !! is missing
main_return_count(s) ==
  Exit([s EXCEPT !.pc = "done"], s.end_ret)

\* main line 378: return !!unit_test_end("libforth")
main_return(s) ==
  Exit([s EXCEPT !.pc = "done"], IF s.end_ret # 0 THEN 1 ELSE 0)

(* --------------------------- the macros -------------------------------- *)

state_print(s) == [print_statement(s) EXCEPT !.pc = "state_run"]

state_run(s) == Advance(s)

note(s) == Advance(print_note(s))

must_print(s) == [print_must(s) EXCEPT !.pc = "t_line"]

t_line(s) == [s EXCEPT !.current_line = Line(s.ip), !.pc = "t_install"]

t_install(s) ==
  [s EXCEPT !.disposition = "sig_abrt_handler", !.pc = "t_setjmp"]

\* setjmp(current_test) returning 0
t_setjmp(s) == [s EXCEPT !.current_test = s.ip, !.pc = "t_arm"]

t_arm(s) == [s EXCEPT !.jmpbuf_active = 1, !.pc = "t_eval"]

\* (EXPR) != 0 has been evaluated to v
t_eval(s, v) == [s EXCEPT !.test_arg = v, !.pc = "t_count"]

t_count(s) ==
  [unit_tester_count(s) EXCEPT
     !.pc = "t_print",
     !.must_failed = @ \/ (Kind(s.ip) = "must" /\ s.test_arg = 0)]

t_print(s) == [unit_tester_print(s) EXCEPT !.pc = "t_assign"]

t_assign(s) == [s EXCEPT !.current_result = s.test_arg, !.pc = "t_dfl"]

\* else branch of the setjmp test, entered by longjmp
c_name(s) ==
  [print_caught_signal_name(s) EXCEPT !.test_arg = 0, !.pc = "c_count"]

c_count(s) ==
  [unit_tester_count(s) EXCEPT
     !.pc = "c_print",
     !.must_failed = @ \/ (Kind(s.ip) = "must" /\ s.hit = "t_eval")]

c_print(s) == [unit_tester_print(s) EXCEPT !.pc = "c_assign"]

c_assign(s) == [s EXCEPT !.current_line = s.test_arg, !.pc = "c_install"]

c_install(s) ==
  [s EXCEPT !.disposition = "sig_abrt_handler", !.pc = "t_dfl"]

t_dfl(s) == [s EXCEPT !.disposition = "SIG_DFL", !.pc = "t_disarm"]

\* faulty variant: test ends in the exit check of must
t_disarm_fatal(s) == [s EXCEPT !.jmpbuf_active = 0, !.pc = "must_check"]

\* faulty variant: line 122 is missing, the flag is left as it is
t_disarm_kept(s) ==
  IF Kind(s.ip) = "must"
  THEN [s EXCEPT !.pc = "must_check"]
  ELSE Advance(s)

t_disarm(s) ==
  IF Kind(s.ip) = "must"
  THEN [s EXCEPT !.jmpbuf_active = 0, !.pc = "must_check"]
  ELSE Advance([s EXCEPT !.jmpbuf_active = 0])

must_check(s) ==
  IF s.current_result = 0 THEN Exit(s, -1) ELSE Advance(s)

(* ------------------------------ signals -------------------------------- *)

Kill(s, sig) == [s EXCEPT !.status = "killed", !.termsig = sig]

\* src = "abort": raised by abort() (a failed assert in the code under
\* test), which ends the process when the handler returns;
\* src = "raise": raised by raise() or sent from outside, the interrupted
\* code resumes when the handler returns
\* faulty variant: the number is recorded inside if(jmpbuf_active)
sig_abrt_handler_guarded(s, sig, src) ==
  IF s.jmpbuf_active # 0
  THEN [s EXCEPT !.caught_signal = sig, !.jmpbuf_active = 0,
                 !.ip = s.current_test, !.pc = "c_name",
                 !.hit = s.pc]
  ELSE IF src = "abort" THEN Kill(s, sig) ELSE s

\* faulty variant: the flag is not cleared before the longjmp (line 99)
sig_abrt_handler_rearmed(s, sig, src) ==
  LET s1 == [s EXCEPT !.caught_signal = sig] IN
  IF s1.jmpbuf_active # 0
  THEN [s1 EXCEPT !.ip = s.current_test, !.pc = "c_name",
                  !.hit = s.pc]
  ELSE IF src = "abort" THEN Kill(s1, sig) ELSE s1

sig_abrt_handler(s, sig, src) ==
  LET s1 == [s EXCEPT !.caught_signal = sig] IN
  IF s1.jmpbuf_active # 0
  THEN [s1 EXCEPT !.jmpbuf_active = 0,
                  !.ip = s.current_test, !.pc = "c_name",
                  !.hit = s.pc]
  ELSE IF src = "abort" THEN Kill(s1, sig) ELSE s1

\* delivery of a signal under the current disposition; with resethand the
\* disposition is back to SIG_DFL when the handler is entered
deliver(s, sig, src) ==
  LET s0 == [s EXCEPT !.nsig = @ + 1] IN
  IF sig # SIGABRT \/ s.disposition = "SIG_DFL"
  THEN Kill(s0, sig)
  ELSE sig_abrt_handler(
         [s0 EXCEPT !.disposition = IF s.resethand THEN "SIG_DFL" ELSE @],
         sig, src)

(* ------------------------------ actions -------------------------------- *)

\* the process starts on one of the command lines given, under a signal()
\* of either kind; its twin has scanned its additional -s
InitOn(vectors) ==
  \E args \in vectors, resethand \in BOOLEAN :
    /\ run = Start(args, resethand)
    /\ twin = main_args(Start(<<<<"-", "s">>>> \o args, resethand))

Init == InitOn(ArgVectors(MaxSuiteArgs))

InitArgs == InitOn(ArgVectors(MaxArgs))

At(label) == run.status = "running" /\ run.pc = label

\* both processes take the step f
Both(f(_)) ==
  /\ run' = f(run)
  /\ twin' = IF twin.status = "running" /\ twin.pc = run.pc
                /\ twin.ip = run.ip
             THEN f(twin) ELSE twin

Args_ == At("args") /\ Both(main_args)

Start_ ==
  /\ At("start")
  /\ \E sig_err \in BOOLEAN :
       Both(LAMBDA s : main_start(s, sig_err))

Note == At("note") /\ Both(note)

StatePrint == At("state_print") /\ Both(state_print)

StateRun == At("state_run") /\ Both(state_run)

MustPrint == At("must_print") /\ Both(must_print)

TLine == At("t_line") /\ Both(t_line)

TInstall == At("t_install") /\ Both(t_install)

TSetjmp == At("t_setjmp") /\ Both(t_setjmp)

TArm == At("t_arm") /\ Both(t_arm)

TEval == At("t_eval") /\ \E v \in {0, 1} : Both(LAMBDA s : t_eval(s, v))

TCount == At("t_count") /\ Both(t_count)

TPrint == At("t_print") /\ Both(t_print)

TAssign == At("t_assign") /\ Both(t_assign)

CName == At("c_name") /\ Both(c_name)

CCount == At("c_count") /\ Both(c_count)

CPrint == At("c_print") /\ Both(c_print)

CAssign == At("c_assign") /\ Both(c_assign)

CInstall == At("c_install") /\ Both(c_install)

TDfl == At("t_dfl") /\ Both(t_dfl)

TDisarm == At("t_disarm") /\ Both(t_disarm)

MustCheck == At("must_check") /\ Both(must_check)

End == At("end") /\ Both(unit_test_end)

Return == At("return") /\ Both(main_return)

\* abort() called by the code under test
Abort ==
  /\ run.status = "running" /\ run.pc \in {"t_eval", "state_run"}
  /\ run.nsig < MaxSignals
  /\ Both(LAMBDA s : deliver(s, SIGABRT, "abort"))

\* SIGABRT raised with raise() or sent to the process, at any point; the
\* other signals keep their default disposition throughout
Signal ==
  /\ run.status = "running"
  /\ run.nsig < MaxSignals
  /\ Both(LAMBDA s : deliver(s, SIGABRT, "raise"))

Next ==
  \/ Args_ \/ Start_ \/ Note \/ StatePrint \/ StateRun \/ MustPrint
  \/ TLine \/ TInstall \/ TSetjmp \/ TArm \/ TEval \/ TCount \/ TPrint
  \/ TAssign \/ CName \/ CCount \/ CPrint \/ CAssign \/ CInstall
  \/ TDfl \/ TDisarm \/ MustCheck \/ End \/ Return
  \/ Abort \/ Signal

Spec == Init /\ [][Next]_vars

\* the same program on the longer command lines
SpecArgs == InitArgs /\ [][Next]_vars

\* print_caught_signal_name on its own: control is at its call in the else
\* branch (line 117) with any number in caught_signal
SigNumbers == (0 - SigMargin)..(MAX_SIGNALS + SigMargin)

InitSig ==
  \E n \in SigNumbers :
    /\ run = [Start(<<>>, FALSE) EXCEPT !.pc = "c_name",
                                        !.caught_signal = n]
    /\ twin = [run EXCEPT !.is_silent = 1]

NextSig == CName

SpecSig == InitSig /\ [][NextSig]_vars

(* ------------------------- derived notions ----------------------------- *)

\* the process is inside main's body at call k
InCall(s) == s.ip \in 1..Len(Suite) /\ s.pc \notin {"args", "start"}

\* number of test/must calls among the first k calls of main
Assertions(k) == Cardinality({j \in 1..k : j <= Len(Suite) /\ IsAssertion(j)})

\* control is between two calls of main's body, or past the last one
BetweenCalls(s) ==
  /\ s.status = "running"
  /\ \/ s.pc \in {"note", "state_print", "must_print", "end"}
     \/ s.pc = "t_line" /\ Kind(s.ip) = "test"

\* the step taken is a step of the program, not a signal delivery
ProgramStep == run'.nsig = run.nsig

\* the current test/must call has recorded a failure
RecordedFailure(s) == s.failed > s.entry_failed

(* ------------------------------ claims --------------------------------- *)

\* C1 (as claimed): once a sequence of N test/must evaluations has run,
\* passed + failed = N, also when an abort-class signal arrives at any
\* point while the trap is armed.
C1_TallyEqualsCalls ==
  BetweenCalls(run) => run.passed + run.failed = Assertions(run.ip - 1)

\* C2 (as claimed): a must call that recorded a failure, by a false result
\* or by a signal caught while its expression was evaluated, ends the
\* process at once with exit(-1) and no further output, whatever the
\* outcome of the preceding assertion was.
C2_FailedMustExits ==
  [][ ( /\ run.status = "running" /\ run.pc = "must_check"
        /\ RecordedFailure(run)
        /\ run.hit \in {"none", "t_eval"}
        /\ ProgramStep )
      => ( /\ run'.status = "exited" /\ run'.exit_code = -1
           /\ run'.out = run.out
           /\ run'.passed = run.passed /\ run'.failed = run.failed ) ]_vars

\* C3: once a test call (not a must) has recorded a failure, by a false
\* result or by a caught signal, no step of the program ends the process:
\* control stays in that call or moves on to the call after it in program
\* order (unit_test_end after the last call).
C3_FailedTestContinues ==
  [][ ( /\ run.status = "running" /\ InCall(run)
        /\ Kind(run.ip) = "test"
        /\ RecordedFailure(run)
        /\ ProgramStep )
      => ( /\ run'.status = "running"
           /\ \/ run'.ip = run.ip /\ run'.pc # "must_check"
              \/ /\ run.pc = "t_disarm"
                 /\ run' = Advance([run EXCEPT !.jmpbuf_active = 0]) ) ]_vars

\* C3 witness: a test has evaluated its expression to false, has recorded
\* the failure, and control has reached the call after it
C3_Witness ==
  /\ BetweenCalls(run)
  /\ (run.ip - 1) \in 1..Len(Suite) /\ Kind(run.ip - 1) = "test"
  /\ run.current_result = 0 /\ run.failed > 0

\* C4 (as claimed): SIGABRT delivered while the expression of a test is
\* evaluated with the trap armed does not end the process and moves control to the else
\* branch of that test's setjmp with both counters unchanged; and the call
\* then completes with failed one higher and passed as at entry, control
\* moving to the call after the test.
C4_AbortCaught ==
  [][ /\ ( /\ run.status = "running" /\ InCall(run)
           /\ Kind(run.ip) = "test" /\ run.pc = "t_eval"
           /\ run.jmpbuf_active = 1
           /\ \E src \in {"abort", "raise"} :
                run' = deliver(run, SIGABRT, src) )
         => ( /\ run'.status = "running"
              /\ run'.pc = "c_name" /\ run'.ip = run.ip
              /\ run'.passed = run.passed /\ run'.failed = run.failed )
      /\ ( /\ run.status = "running" /\ InCall(run)
           /\ Kind(run.ip) = "test" /\ run.pc = "t_disarm"
           /\ run.hit = "t_eval"
           /\ ProgramStep )
         => ( /\ run'.status = "running"
              /\ run'.ip = NextIp(run, run.ip)
              /\ run'.failed = run.entry_failed + 1
              /\ run'.passed = run.entry_passed ) ]_vars

\* C5 (as claimed): when the suite has reached its end the exit status is
\* the number of failed assertions returned by unit_test_end.
C5_ExitStatusIsFailedCount ==
  run.pc = "done" => run.exit_code = run.failed

\* C5 (amended): when the suite has reached its end, unit_test_end has
\* returned the number of failed assertions and the exit status is 0 when
\* that number is 0 and 1 otherwise.
C5_ExitStatusIsFailedFlag ==
  run.pc = "done" =>
    /\ run.status = "exited"
    /\ run.end_ret = run.failed
    /\ run.exit_code = (IF run.failed = 0 THEN 0 ELSE 1)

\* C5 witness: the suite has ended with two failed assertions
C5_Witness == run.pc = "done" /\ run.failed = 2

\* C6 (as claimed): when signal() fails in unit_test_start the process
\* ends at once with a non-zero status, nothing of main's body having
\* been executed or tallied.
C6_FailedInstallExits ==
  run.start_ret = -1 =>
    /\ run.status = "exited" /\ run.exit_code # 0
    /\ run.ip = 0 /\ run.out = <<>>
    /\ run.passed = 0 /\ run.failed = 0

\* C7 (as claimed): a signal delivered during a state(...) statement, where
\* the trap is never armed, ends the process; execution does not go on.
C7_UnarmedSignalKills ==
  [][ ( /\ run.status = "running"
        /\ run.pc \in {"state_print", "state_run"}
        /\ run.jmpbuf_active = 0
        /\ run'.nsig = run.nsig + 1 )
      => run'.status = "killed" ]_vars

\* the lines that silent mode must suppress
ReportLines == {"state", "must", "ok", "FAILED", "caught"}

Quiet(out) == \A j \in 1..Len(out) : out[j][1] \notin ReportLines

\* C8: the run given one more leading -s is silent and agrees at every
\* step with the run without it on both counters, on the point of control,
\* on how and with which status the process ended; and a silent run has
\* emitted no state/must/ok/FAILED/caught line.
C8_SilentSameRun ==
  /\ twin.is_silent = 1
  /\ twin.passed = run.passed /\ twin.failed = run.failed
  /\ twin.pc = run.pc /\ twin.ip = run.ip
  /\ twin.status = run.status
  /\ twin.exit_code = run.exit_code /\ twin.termsig = run.termsig
  /\ twin.current_result = run.current_result
  /\ Quiet(twin.out)
  /\ (run.is_silent = 1 => Quiet(run.out))

\* C8 witness: a non-silent run has ended with passed and failed
\* assertions and has written its summary, the silent one has written
\* nothing
C8_Witness ==
  /\ run.is_silent = 0 /\ run.pc = "done"
  /\ run.passed > 0 /\ run.failed > 0
  /\ run.out # <<>> /\ twin.out = <<>>

\* C9 (as claimed): when a test call is over, current_result is that
\* call's outcome: the truth value of the expression when evaluation
\* completed, 0 when a signal was caught during evaluation.
C9_ResultIsOutcome ==
  ( /\ run.status = "running" /\ InCall(run)
    /\ Kind(run.ip) = "test" /\ run.pc = "t_disarm"
    /\ run.hit \in {"none", "t_eval"} )
  => run.current_result = (IF run.hit = "none" THEN run.test_arg ELSE 0)

\* argv[j] is a '-' followed by a flag character
IsFlagArg(argv, j) == Char(argv, j, 0) = "-" /\ Char(argv, j, 1) # "NUL"

\* the leading arguments that are flags: indices 1..n, n largest
Leading(argv) ==
  {j \in 1..(Len(argv) - 1) : \A m \in 1..j : IsFlagArg(argv, m)}

\* the flag characters of the leading flag arguments
LeadingFlags(argv) == {Char(argv, j, 1) : j \in Leading(argv)}

Rejected(argv) == LeadingFlags(argv) \ {"s", "c", "k"} # {}

Given(flags, c) == IF c \in flags THEN 1 ELSE 0

\* C10: with -h or an unknown flag among the leading flag arguments the
\* suite is never started, nothing is tallied or reported and the only
\* exit is one with a non-zero status; otherwise main never exits from its
\* argument loop, and once past it the suite has been started exactly once
\* with is_silent, color_on and keep_files given by the leading -s, -c and
\* -k.
C10_CommandLine ==
  LET flags == LeadingFlags(run.argv) IN
  IF flags \ {"s", "c", "k"} # {}
  THEN /\ run.pc = "args" /\ run.started = 0
       /\ run.passed = 0 /\ run.failed = 0 /\ run.out = <<>>
       /\ run.status = "exited" => run.exit_code # 0
  ELSE /\ run.pc = "args" => run.status # "exited"
       /\ run.pc \notin {"args", "start"} =>
            /\ run.started = 1
            /\ run.is_silent = Given(flags, "s")
            /\ run.color_on = Given(flags, "c")
            /\ run.keep_files = Given(flags, "k")

\* C10 witness: -h met after -s: the process has exited without a start
C10_Witness ==
  /\ Rejected(run.argv) /\ "s" \in LeadingFlags(run.argv)
  /\ run.is_silent = 1
  /\ run.status = "exited" /\ run.started = 0

\* C11 (two arms without a disarm between them: the later recovery point
\* wins) has no case in this program.  No expression of main's body uses
\* test or must, so every setjmp and every jmpbuf_active = 1 finds the
\* trap disarmed:
C11_ArmsWhenDisarmed ==
  run.pc \in {"t_setjmp", "t_arm"} => run.jmpbuf_active = 0

\* positions of the result lines in what a call has written
ResultLines(out) == {j \in 1..Len(out) : out[j][1] \in {"ok", "FAILED"}}

\* C12 (as claimed): without -s, a test/must call that has come to its end
\* has written exactly one result line, "ok" when it stepped passed and
\* "FAILED" when it stepped failed, and has stepped nothing else; a must
\* call has written its "must" line first, before its expression is
\* evaluated; a "caught" line comes before the FAILED line of the call; and
\* the action of a state call runs with the "state" line already written.
C12_OutputOrder ==
  (run.is_silent = 0 /\ run.status = "running" /\ InCall(run)) =>
    /\ run.pc = "t_disarm" =>
         /\ Cardinality(ResultLines(run.out)) = 1
         /\ \A j \in ResultLines(run.out) :
              IF run.out[j][1] = "ok"
              THEN /\ run.passed = run.entry_passed + 1
                   /\ run.failed = run.entry_failed
              ELSE /\ run.failed = run.entry_failed + 1
                   /\ run.passed = run.entry_passed
    /\ (Kind(run.ip) = "must" /\ run.pc # "must_print") =>
         /\ run.out # <<>> /\ run.out[1] = <<"must", Line(run.ip)>>
         /\ run.pc = "t_eval" => ResultLines(run.out) = {}
    /\ (run.hit # "none" /\ run.pc \notin {"c_name", "c_count", "c_print"}) =>
         \E i, j \in 1..Len(run.out) :
           /\ i < j
           /\ run.out[i][1] = "caught" /\ run.out[j][1] = "FAILED"
    /\ run.pc = "state_run" => run.out = << <<"state", Line(run.ip)>> >>

\* C13 (as claimed): whenever the expression of a test or must is about to
\* be evaluated, the disposition of SIGABRT is sig_abrt_handler, the trap is
\* armed and the jmp_buf was filled by that same call, whatever happened in
\* the calls before it.
C13_ProtectedAtEvaluation ==
  (run.status = "running" /\ run.pc = "t_eval") =>
    /\ run.disposition = "sig_abrt_handler"
    /\ run.jmpbuf_active = 1
    /\ run.current_test = run.ip

\* C14 (as claimed): whenever jmpbuf_active is 1 the disposition of SIGABRT
\* is sig_abrt_handler, in particular after the evaluation and up to the
\* disarm.  Stated for the process before any signal has been delivered to
\* it, so that the disposition is the one the program itself has set.
C14_ArmedMeansHandled ==
  (run.status = "running" /\ run.jmpbuf_active = 1 /\ run.nsig = 0) =>
    run.disposition = "sig_abrt_handler"

\* control is outside the armed part of an assertion: in a note or state
\* call, between two calls, in a test or must before line 114 or after line
\* 122, or before or after main's body
OutsideAssertion(s) ==
  s.pc \in {"args", "start", "note", "state_print", "state_run",
            "must_print", "t_line", "t_install", "t_setjmp", "t_arm",
            "must_check", "end", "return", "done"}

\* the globals of unit.c are the same in s and t
SameGlobals(s, t) ==
  /\ s.passed = t.passed /\ s.failed = t.failed
  /\ s.jmpbuf_active = t.jmpbuf_active
  /\ s.current_test = t.current_test
  /\ s.current_line = t.current_line
  /\ s.current_result = t.current_result
  /\ s.caught_signal = t.caught_signal
  /\ s.disposition = t.disposition
  /\ s.color_on = t.color_on /\ s.is_silent = t.is_silent
  /\ s.keep_files = t.keep_files

\* C15: jmpbuf_active is 0 whenever control is outside the armed part of an
\* assertion (in a note or state call, between calls, after unit_test_end),
\* after assertions that completed normally and after assertions that
\* caught a signal; and line 122 reached after a caught signal, the handler
\* having cleared the flag already, changes no global of the program.
C15_DisarmedOutside ==
  /\ [](OutsideAssertion(run) => run.jmpbuf_active = 0)
  /\ [][ ( /\ run.status = "running" /\ run.pc = "t_disarm"
            /\ run.hit # "none"
            /\ ProgramStep )
          => ( /\ run.jmpbuf_active = 0
               /\ run'.status = "running"
               /\ SameGlobals(run, run') ) ]_vars

\* C15 witness: a must has caught a signal and has passed line 122 with
\* the flag clear
C15_Witness ==
  /\ run.status = "running" /\ run.pc = "must_check"
  /\ run.hit # "none" /\ run.jmpbuf_active = 0

\* C16: a signal delivered while the trap is armed either ends the process
\* or moves control, once, to the else branch of the setjmp of the call
\* being evaluated, that call having filled the jmp_buf; a signal delivered
\* after a signal was caught in the current call, or with the trap not
\* armed, moves control nowhere and steps no counter.
C16_SingleShot ==
  [][ ~ProgramStep =>
        /\ run'.passed = run.passed /\ run'.failed = run.failed
        /\ IF run.hit = "none" /\ run.jmpbuf_active = 1
           THEN run'.status = "running" =>
                  /\ IsAssertion(run.ip) /\ run.current_test = run.ip
                  /\ run'.ip = run.ip /\ run'.pc = "c_name"
                  /\ run'.hit = run.pc /\ run'.jmpbuf_active = 0
           ELSE /\ run'.ip = run.ip /\ run'.pc = run.pc
                /\ run'.hit = run.hit ]_vars

\* C16 witness: under a resetting signal() a call has caught a signal, has
\* installed the handler again at line 119 and has then received a second
\* signal, which the handler let pass
C16_Witness ==
  /\ run.status = "running" /\ run.resethand
  /\ run.pc = "t_dfl" /\ run.hit # "none"
  /\ run.disposition = "SIG_DFL" /\ run.nsig = 2

\* the signals the claim lists, with their names
Recognised ==
  (SIGABRT :> "SIGABRT") @@ (SIGFPE :> "SIGFPE") @@ (SIGILL :> "SIGILL")
  @@ (SIGINT :> "SIGINT") @@ (SIGSEGV :> "SIGSEGV") @@ (SIGTERM :> "SIGTERM")

\* C17: the line print_caught_signal_name writes for the number in
\* caught_signal carries the symbolic name when the number is one of
\* SIGABRT, SIGFPE, SIGILL, SIGINT, SIGSEGV, SIGTERM, and "UNKNOWN SIGNAL"
\* for every other number (0, negative, MAX_SIGNALS and above included),
\* with the number itself; and sig_lookup is read at elements of the array
\* only.
C17_SignalName ==
  (run.pc = "c_count" /\ run.is_silent = 0) =>
    LET n == run.caught_signal IN
    /\ run.out # <<>>
    /\ run.out[Len(run.out)] =
         <<"caught",
           IF n \in DOMAIN Recognised THEN Recognised[n]
                                      ELSE "UNKNOWN SIGNAL",
           n>>
    /\ sig_reads(n) \subseteq sig_lookup_indices
    /\ twin.out = <<>>

\* C17 witness: the name has been written for a negative number
C17_Witness ==
  /\ run.pc = "c_count" /\ run.caught_signal < 0
  /\ run.out = << <<"caught", "UNKNOWN SIGNAL", run.caught_signal>> >>

\* the driver's state: before unit_test_start, after unit_test_end, or
\* between the two
Phase(s) ==
  IF s.pc \in {"args", "start"} THEN "NotStarted"
  ELSE IF s.pc \in {"return", "done"} THEN "Ended"
  ELSE "Running"

\* C18 (as claimed, the part every finite run shows): the driver goes from
\* NotStarted to Running to Ended and never back, main's calls run in
\* program order, unit_test_end is reached after all of them and after one
\* unit_test_start, and it is never reached once a must has failed.
C18_SuiteProgress ==
  /\ [](Phase(run) = "Ended" =>
          /\ run.started = 1 /\ run.ip = Len(Suite) + 1
          /\ ~run.must_failed)
  /\ [][ /\ <<Phase(run), Phase(run')>> \in
              { <<"NotStarted", "NotStarted">>, <<"NotStarted", "Running">>,
                <<"Running", "Running">>, <<"Running", "Ended">>,
                <<"Ended", "Ended">> }
         /\ run'.ip \in {run.ip, NextIp(run, run.ip)} ]_vars

\* the step taken is a delivery of SIGABRT that enters sig_abrt_handler
HandlerEntered == ~ProgramStep /\ run.disposition = "sig_abrt_handler"

\* C19 (as claimed): the handler entered with jmpbuf_active at 0 leaves
\* caught_signal, both counters and the flag as they were.
C19_RecordsOnlyWhenArmed ==
  [][ (HandlerEntered /\ run.jmpbuf_active = 0) =>
        /\ run'.caught_signal = run.caught_signal
        /\ run'.passed = run.passed /\ run'.failed = run.failed
        /\ run'.jmpbuf_active = 0 ]_vars

\* C19 (amended): the handler records the number of the signal in
\* caught_signal every time it is entered; entered with jmpbuf_active at 0
\* it changes nothing else: the counters, the flag and the point of control
\* stay as they were.
C19_RecordsAlways ==
  [][ HandlerEntered =>
        /\ run'.caught_signal = SIGABRT
        /\ run.jmpbuf_active = 0 =>
             /\ run'.passed = run.passed /\ run'.failed = run.failed
             /\ run'.jmpbuf_active = 0
             /\ run'.pc = run.pc /\ run'.ip = run.ip ]_vars

\* C19 witness: the handler was entered in the state call at line 224,
\* before any assertion had armed the trap, and the process runs on
C19_Witness ==
  /\ run.status = "running" /\ run.pc = "state_run" /\ run.ip = 2
  /\ run.caught_signal = SIGABRT
  /\ run.jmpbuf_active = 0 /\ run.passed = 0 /\ run.failed = 0

====
